---- MODULE Spec2Model ----
(***************************************************************************)
(* Model of src/App.js: the water tracker's hydration state (four React    *)
(* state cells plus the text input), the startup load with its day         *)
(* rollover, the intake handler, and the fire-and-forget persistence to    *)
(* AsyncStorage under one key.                                             *)
(*                                                                         *)
(* AsyncStorage calls are asynchronous: every getItem/setItem is an entry  *)
(* of `pending' until the store executes it.  The store executes pending   *)
(* calls in any order (the API gives one independent promise per call).    *)
(***************************************************************************)
EXTENDS Integers, Sequences, FiniteSets, TLC

VARIABLES
    remainingMl,     \* useState(DAILY_GOAL_ML)            App.js:54
    streak,          \* useState(0)                        App.js:55
    lastDate,        \* useState(getDateKey())             App.js:56
    completedToday,  \* useState(false)                    App.js:57
    inputValue,      \* useState('')                       App.js:58
    store,           \* the item held under STORAGE_KEY
    pending,         \* AsyncStorage calls issued and not yet executed
    phase,           \* "loading": getItem outstanding, "ready", "closed"
    today,           \* the device's calendar day (index into the calendar)
    loadLog,         \* history: what the startup load of this session saw
    prevSession,     \* history: the active state of the last session that
                     \* completed its load, and the day that session ended;
                     \* kept until the next startup load completes
    reachedDays,     \* history: the days on which the goal was reached, a
                     \* day being the day the state was tracking (lastDate)
    lastEvent        \* history: "intake" or "noIntake" when handleAddWater ran
                     \* last (with or without an amount > 0), "setItemRejected"
                     \* when a write was rejected last, else "other"

vars == <<remainingMl, streak, lastDate, completedToday, inputValue, store,
          pending, phase, today, loadLog,
          prevSession, reachedDays, lastEvent>>

----------------------------------------------------------------------------
(* Program constants and bounds *)

DAILY_GOAL_ML == 2000

MaxDay == 1          \* the app runs on days 0..MaxDay
MaxPending == 3      \* AsyncStorage calls in flight

----------------------------------------------------------------------------
(* The clock and getDateKey *)

\* new Date(): the local calendar date of day n; the days straddle a month end
DateOf(n) ==
    IF n < 2 THEN [year |-> 2024, month |-> 1, day |-> 30 + n]
             ELSE [year |-> 2024, month |-> 2, day |-> n - 1]

\* String(n).padStart(2, '0')
PadStart2(n) == IF n < 10 THEN "0" \o ToString(n) ELSE ToString(n)

getDateKey(date) ==
    ToString(date.year) \o "-" \o PadStart2(date.month) \o "-" \o PadStart2(date.day)

Today == getDateKey(DateOf(today))

\* the day whose date key is key
DayOfKey(key) == CHOOSE n \in (0 - 1)..MaxDay : getDateKey(DateOf(n)) = key

----------------------------------------------------------------------------
(* Pure helpers *)

Min2(a, b) == IF a < b THEN a ELSE b
Max2(a, b) == IF a > b THEN a ELSE b

clampNoFloor(value, min, max) == Min2(value, max)

clamp(value, min, max) == Min2(Max2(value, min), max)

Digits == {"0", "1", "2", "3", "4", "5", "6", "7", "8", "9"}
DigitVal(c) ==
    CASE c = "0" -> 0 [] c = "1" -> 1 [] c = "2" -> 2 [] c = "3" -> 3
      [] c = "4" -> 4 [] c = "5" -> 5 [] c = "6" -> 6 [] c = "7" -> 7
      [] c = "8" -> 8 [] c = "9" -> 9

RECURSIVE TrimStart(_)
TrimStart(s) ==
    IF s # <<>> /\ Head(s) = " " THEN TrimStart(Tail(s)) ELSE s

\* the value of the longest prefix of digits of s, continuing from acc
RECURSIVE DigitRun(_, _)
DigitRun(s, acc) ==
    IF s # <<>> /\ Head(s) \in Digits
    THEN DigitRun(Tail(s), 10 * acc + DigitVal(Head(s)))
    ELSE acc

\* Number.parseInt(value, 10): leading white space, an optional sign, then
\* the longest run of digits; NaN when there is no digit in that place.
\* The result is [nan |-> TRUE] or the integer n.
NumberParseInt(value) ==
    LET t    == TrimStart(value)
        neg  == t # <<>> /\ Head(t) = "-"
        body == IF t # <<>> /\ Head(t) \in {"-", "+"} THEN Tail(t) ELSE t
    IN  IF body = <<>> \/ Head(body) \notin Digits
        THEN [nan |-> TRUE, n |-> 0]
        ELSE [nan |-> FALSE,
              n   |-> IF neg THEN 0 - DigitRun(body, 0) ELSE DigitRun(body, 0)]

parseIntSafeUnsigned(value) ==
    LET parsed == NumberParseInt(value)
    IN  IF parsed.nan THEN 0 ELSE IF parsed.n < 0 THEN 0 - parsed.n ELSE parsed.n

parseIntSafe(value) ==
    LET parsed == NumberParseInt(value)
    IN  IF parsed.nan THEN 0 ELSE parsed.n

buildInitialState(day) ==
    [remainingMl    |-> DAILY_GOAL_ML,
     streak         |-> 0,
     lastDate       |-> getDateKey(DateOf(day)),
     completedToday |-> FALSE]

hydrateBackfill(state, day) ==
    LET key == getDateKey(DateOf(day))
    IN  IF state.lastDate = key
        THEN state
        ELSE [remainingMl    |-> DAILY_GOAL_ML,
              streak         |-> IF state.completedToday
                                 THEN state.streak + (day - DayOfKey(state.lastDate))
                                 ELSE 0,
              lastDate       |-> key,
              completedToday |-> FALSE]

hydrateAlwaysIncrement(state, day) ==
    LET key == getDateKey(DateOf(day))
    IN  IF state.lastDate = key
        THEN state
        ELSE [remainingMl    |-> DAILY_GOAL_ML,
              streak         |-> state.streak + 1,
              lastDate       |-> key,
              completedToday |-> FALSE]

hydrateAlwaysFresh(state, day) ==
    [remainingMl    |-> DAILY_GOAL_ML,
     streak         |-> IF state.completedToday THEN state.streak + 1 ELSE 0,
     lastDate       |-> getDateKey(DateOf(day)),
     completedToday |-> FALSE]

hydrateKeepDate(state, day) ==
    LET key == getDateKey(DateOf(day))
    IN  IF state.lastDate = key
        THEN state
        ELSE [remainingMl    |-> DAILY_GOAL_ML,
              streak         |-> IF state.completedToday THEN state.streak + 1 ELSE 0,
              lastDate       |-> state.lastDate,
              completedToday |-> FALSE]

hydrateStateForToday(state, day) ==
    LET key == getDateKey(DateOf(day))
    IN  IF state.lastDate = key
        THEN state
        ELSE [remainingMl    |-> DAILY_GOAL_ML,
              streak         |-> IF state.completedToday THEN state.streak + 1 ELSE 0,
              lastDate       |-> key,
              completedToday |-> FALSE]

----------------------------------------------------------------------------
(* The stored item and the AsyncStorage calls *)

\* the four state cells as one object, as the persist effect builds it
Current ==
    [remainingMl    |-> remainingMl,
     streak         |-> streak,
     lastDate       |-> lastDate,
     completedToday |-> completedToday]

NoState ==
    [remainingMl |-> 0, streak |-> 0, lastDate |-> "", completedToday |-> FALSE]

\* getItem resolves to null when the key is absent
NullItem == [kind |-> "null", value |-> NoState]

\* JSON.stringify(state): a text that JSON.parse reads back as the object
JSONstringify(state) == [kind |-> "json", value |-> state]

\* a stored text that is not JSON
CorruptItem == [kind |-> "corrupt", value |-> NoState]

\* the stored text "null"
JsonNullItem == [kind |-> "jsonNull", value |-> NoState]

\* JSON.parse(text): the object, or null, or a SyntaxError
JSONparse(text) ==
    IF text.kind \in {"json", "jsonNull"}
    THEN [ok |-> TRUE, isNull |-> text.kind = "jsonNull", value |-> text.value]
    ELSE [ok |-> FALSE, isNull |-> FALSE, value |-> NoState]

GetItem == [op |-> "getItem", text |-> NullItem]
SetItem(state) == [op |-> "setItem", text |-> JSONstringify(state)]

Remove(q, i) == SubSeq(q, 1, i - 1) \o SubSeq(q, i + 1, Len(q))

\* the calls persistState issues when a handler moves the state from old to
\* new: the persist effect runs when one of its four dependencies changed
PersistEffect(old, new) == IF new = old THEN <<>> ELSE <<SetItem(new)>>

----------------------------------------------------------------------------
(* Inputs *)

\* texts the user types
Inputs ==
    { <<"1", "0", "0", "0">>,
      <<"-", "5">>,
      <<"a", "b", "c">> }

\* items a store can hold when the app is first started on day 0: nothing, or
\* a state written by an earlier run on day 0 or on the day before
StoredStates ==
    { [remainingMl |-> 100, streak |-> 1, lastDate |-> getDateKey(DateOf(0)),
       completedToday |-> FALSE],
      [remainingMl |-> 0, streak |-> 2, lastDate |-> getDateKey(DateOf(0 - 1)),
       completedToday |-> TRUE] }

InitialItems == {NullItem} \cup {JSONstringify(s) : s \in StoredStates}

\* a payload that parses and is no state the app writes: fields out of range
InvalidStates ==
    { [remainingMl |-> 5000, streak |-> 0 - 3, lastDate |-> getDateKey(DateOf(0)),
       completedToday |-> TRUE] }

\* what a store can hold that no run of the app wrote: nothing, a text that
\* does not parse, and payloads that parse to null or to an object with fields
\* out of range
FaultyItems ==
    {NullItem, CorruptItem, JsonNullItem}
        \cup {JSONstringify(s) : s \in InvalidStates}

\* the days on which the goal was reached before the first start, as a state
\* written by an earlier run tells them: its streak, and its own day if completed
InitialReached(item) ==
    IF item.kind = "json" /\ item.value \in StoredStates
    THEN LET last == DayOfKey(item.value.lastDate)
         IN  ((last - item.value.streak)..(last - 1))
                 \cup (IF item.value.completedToday THEN {last} ELSE {})
    ELSE {}

NoLoad == [outcome |-> "none", parsed |-> NoState, day |-> 0]
NoSession == [state |-> NoState, day |-> 0]

----------------------------------------------------------------------------
(* Actions *)

\* App(): first render, then both effects run: loadState() issues getItem and
\* the persist effect issues setItem of the initial state
MountState(day) ==
    /\ remainingMl' = DAILY_GOAL_ML
    /\ streak' = 0
    /\ lastDate' = getDateKey(DateOf(day))
    /\ completedToday' = FALSE
    /\ inputValue' = <<>>
    /\ pending' = <<GetItem, SetItem(buildInitialState(day))>>
    /\ phase' = "loading"
    /\ loadLog' = NoLoad
    /\ lastEvent' = "other"

Init ==
    /\ today = 0
    /\ store \in InitialItems
    /\ remainingMl = DAILY_GOAL_ML
    /\ streak = 0
    /\ lastDate = getDateKey(DateOf(0))
    /\ completedToday = FALSE
    /\ inputValue = <<>>
    /\ pending = <<GetItem, SetItem(buildInitialState(0))>>
    /\ phase = "loading"
    /\ loadLog = NoLoad
    /\ prevSession = NoSession
    /\ reachedDays = InitialReached(store)
    /\ lastEvent = "other"

\* the first start on a store that holds no state the app wrote
InitFaultyStore ==
    /\ today = 0
    /\ store \in FaultyItems
    /\ remainingMl = DAILY_GOAL_ML
    /\ streak = 0
    /\ lastDate = getDateKey(DateOf(0))
    /\ completedToday = FALSE
    /\ inputValue = <<>>
    /\ pending = <<GetItem, SetItem(buildInitialState(0))>>
    /\ phase = "loading"
    /\ loadLog = NoLoad
    /\ prevSession = NoSession
    /\ reachedDays = InitialReached(store)
    /\ lastEvent = "other"

\* the app is started again after it was closed
Mount ==
    /\ phase = "closed"
    /\ MountState(today)
    /\ UNCHANGED <<store, today, prevSession, reachedDays>>

SetStateFromStorageNoPersist(hydrated, rest) ==
    /\ remainingMl' = hydrated.remainingMl
    /\ streak' = hydrated.streak
    /\ lastDate' = hydrated.lastDate
    /\ completedToday' = hydrated.completedToday
    /\ pending' = rest \o PersistEffect(Current, hydrated)

\* setStateFromStorage(hydrated): the four setters, persistState(hydrated),
\* and then the persist effect of the re-render
SetStateFromStorage(hydrated, rest) ==
    /\ remainingMl' = hydrated.remainingMl
    /\ streak' = hydrated.streak
    /\ lastDate' = hydrated.lastDate
    /\ completedToday' = hydrated.completedToday
    /\ pending' = rest \o <<SetItem(hydrated)>> \o PersistEffect(Current, hydrated)

\* getItem resolves with the stored item and loadState runs on
LoadStateResolved(i) ==
    /\ phase = "loading"
    /\ i \in 1..Len(pending)
    /\ pending[i].op = "getItem"
    /\ Len(pending) + 1 <= MaxPending
    /\ LET stored == store
           json   == JSONparse(stored)
           \* JSON.parse throws on a text that is not JSON, and
           \* hydrateStateForToday throws on reading null.lastDate
           thrown == stored.kind # "null" /\ (~json.ok \/ json.isNull)
           parsed == IF stored.kind # "null" THEN json.value
                                             ELSE buildInitialState(today)
           result == IF thrown THEN buildInitialState(today)
                               ELSE hydrateStateForToday(parsed, today)
       IN  /\ SetStateFromStorage(result, Remove(pending, i))
           /\ loadLog' = [outcome |-> IF thrown THEN "error"
                                      ELSE IF stored.kind = "null" THEN "absent"
                                      ELSE "stored",
                          parsed  |-> IF thrown THEN NoState ELSE parsed,
                          day     |-> today]
    /\ phase' = "ready"
    /\ prevSession' = NoSession
    /\ lastEvent' = "other"
    /\ UNCHANGED <<inputValue, store, today, reachedDays>>

LoadStateRejectedSilent(i) ==
    /\ phase = "loading"
    /\ i \in 1..Len(pending)
    /\ pending[i].op = "getItem"
    /\ Len(pending) + 1 <= MaxPending
    /\ pending' = Remove(pending, i)
    /\ loadLog' = [outcome |-> "error", parsed |-> NoState, day |-> today]
    /\ phase' = "ready"
    /\ prevSession' = NoSession
    /\ lastEvent' = "other"
    /\ UNCHANGED <<remainingMl, streak, lastDate, completedToday, inputValue,
                   store, today, reachedDays>>

\* getItem rejects: the catch branch of loadState
LoadStateRejected(i) ==
    /\ phase = "loading"
    /\ i \in 1..Len(pending)
    /\ pending[i].op = "getItem"
    /\ Len(pending) + 1 <= MaxPending
    /\ SetStateFromStorage(buildInitialState(today), Remove(pending, i))
    /\ loadLog' = [outcome |-> "error", parsed |-> NoState, day |-> today]
    /\ phase' = "ready"
    /\ prevSession' = NoSession
    /\ lastEvent' = "other"
    /\ UNCHANGED <<inputValue, store, today, reachedDays>>

\* the store executes a setItem: the item is overwritten
SetItemResolved(i) ==
    /\ i \in 1..Len(pending)
    /\ pending[i].op = "setItem"
    /\ store' = pending[i].text
    /\ pending' = Remove(pending, i)
    /\ lastEvent' = "other"
    /\ UNCHANGED <<remainingMl, streak, lastDate, completedToday, inputValue,
                   phase, today, loadLog, prevSession, reachedDays>>

SetItemRejectedRetry(i) ==
    /\ i \in 1..Len(pending)
    /\ pending[i].op = "setItem"
    /\ pending' = Append(Remove(pending, i), pending[i])
    /\ lastEvent' = "setItemRejected"
    /\ UNCHANGED <<remainingMl, streak, lastDate, completedToday, inputValue,
                   store, phase, today, loadLog, prevSession, reachedDays>>

\* a setItem rejects: persistState swallows the error
SetItemRejected(i) ==
    /\ i \in 1..Len(pending)
    /\ pending[i].op = "setItem"
    /\ pending' = Remove(pending, i)
    /\ lastEvent' = "setItemRejected"
    /\ UNCHANGED <<remainingMl, streak, lastDate, completedToday, inputValue,
                   store, phase, today, loadLog, prevSession, reachedDays>>

\* onChangeText={setInputValue}
ChangeText(text) ==
    /\ phase \in {"loading", "ready"}
    /\ inputValue' = text
    /\ lastEvent' = "other"
    /\ UNCHANGED <<remainingMl, streak, lastDate, completedToday, store, pending,
                   phase, today, loadLog, prevSession, reachedDays>>

AddWaterNoComplete(state, text) ==
    LET amount        == parseIntSafe(text)
        nextRemaining == clamp(state.remainingMl - amount, 0, DAILY_GOAL_ML)
    IN  IF amount <= 0
        THEN state
        ELSE [state EXCEPT !.remainingMl = nextRemaining]

AddWaterExactOnly(state, text) ==
    LET amount        == parseIntSafe(text)
        nextRemaining == clamp(state.remainingMl - amount, 0, DAILY_GOAL_ML)
        didComplete   == state.remainingMl - amount = 0
    IN  IF amount <= 0
        THEN state
        ELSE [state EXCEPT !.remainingMl = nextRemaining,
                           !.completedToday = didComplete \/ state.completedToday]

AddWaterRefill(state, text) ==
    LET amount        == parseIntSafe(text)
        nextRemaining == clamp(state.remainingMl + amount, 0, DAILY_GOAL_ML)
        didComplete   == nextRemaining = 0
    IN  IF amount <= 0
        THEN state
        ELSE [state EXCEPT !.remainingMl = nextRemaining,
                           !.completedToday = didComplete \/ state.completedToday]

AddWaterNotSticky(state, text) ==
    LET amount        == parseIntSafe(text)
        nextRemaining == clamp(state.remainingMl - amount, 0, DAILY_GOAL_ML)
        didComplete   == nextRemaining = 0 /\ state.remainingMl > 0
    IN  IF amount <= 0
        THEN state
        ELSE [state EXCEPT !.remainingMl = nextRemaining,
                           !.completedToday = didComplete]

\* the state handleAddWater sets from the state it closes over
AddWater(state, text) ==
    LET amount        == parseIntSafe(text)
        nextRemaining == clamp(state.remainingMl - amount, 0, DAILY_GOAL_ML)
        didComplete   == nextRemaining = 0
    IN  IF amount <= 0
        THEN state
        ELSE [state EXCEPT !.remainingMl = nextRemaining,
                           !.completedToday = didComplete \/ state.completedToday]

handleAddWaterRolling ==
    /\ phase \in {"loading", "ready"}
    /\ LET next == AddWater(hydrateStateForToday(Current, today), inputValue)
       IN  /\ Len(pending) + Len(PersistEffect(Current, next)) <= MaxPending
           /\ remainingMl' = next.remainingMl
           /\ streak' = next.streak
           /\ lastDate' = next.lastDate
           /\ completedToday' = next.completedToday
           /\ inputValue' = IF parseIntSafe(inputValue) <= 0 THEN inputValue ELSE <<>>
           /\ pending' = pending \o PersistEffect(Current, next)
    /\ reachedDays' = IF completedToday' /\ ~completedToday
                      THEN reachedDays \cup {DayOfKey(lastDate)}
                      ELSE reachedDays
    /\ lastEvent' = IF parseIntSafe(inputValue) <= 0 THEN "noIntake" ELSE "intake"
    /\ UNCHANGED <<store, phase, today, loadLog, prevSession>>

\* onPress={handleAddWater}, and the persist effect of the re-render
handleAddWater ==
    /\ phase \in {"loading", "ready"}
    /\ LET next == AddWater(Current, inputValue)
       IN  /\ Len(pending) + Len(PersistEffect(Current, next)) <= MaxPending
           /\ remainingMl' = next.remainingMl
           /\ completedToday' = next.completedToday
           /\ inputValue' = IF parseIntSafe(inputValue) <= 0 THEN inputValue ELSE <<>>
           /\ pending' = pending \o PersistEffect(Current, next)
    /\ reachedDays' = IF completedToday' /\ ~completedToday
                      THEN reachedDays \cup {DayOfKey(lastDate)}
                      ELSE reachedDays
    /\ lastEvent' = IF parseIntSafe(inputValue) <= 0 THEN "noIntake" ELSE "intake"
    /\ UNCHANGED <<streak, lastDate, store, phase, today,
                   loadLog, prevSession>>

NextDayRolling ==
    /\ today < MaxDay
    /\ today' = today + 1
    /\ LET rolled == hydrateStateForToday(Current, today + 1)
       IN  /\ remainingMl' = rolled.remainingMl
           /\ streak' = rolled.streak
           /\ lastDate' = rolled.lastDate
           /\ completedToday' = rolled.completedToday
    /\ lastEvent' = "other"
    /\ UNCHANGED <<inputValue, store, pending, phase, loadLog, prevSession,
                   reachedDays>>

\* midnight passes
NextDay ==
    /\ today < MaxDay
    /\ today' = today + 1
    /\ lastEvent' = "other"
    /\ UNCHANGED <<remainingMl, streak, lastDate, completedToday, inputValue, store,
                   pending, phase, loadLog, prevSession, reachedDays>>

\* the app is closed: its callbacks never run again, and the calls the store
\* had not executed yet are lost with the process (a call the store executes
\* after the close is a SetItemResolved step taken before it)
CloseApp ==
    /\ phase \in {"loading", "ready"}
    /\ phase' = "closed"
    /\ pending' = <<>>
    /\ prevSession' = IF phase = "ready"
                      THEN [state |-> Current, day |-> today]
                      ELSE prevSession
    /\ inputValue' = <<>>
    /\ loadLog' = NoLoad
    /\ lastEvent' = "other"
    /\ UNCHANGED <<remainingMl, streak, lastDate, completedToday, store, today, reachedDays>>

Next ==
    \/ Mount
    \/ \E i \in 1..MaxPending : LoadStateResolved(i)
    \/ \E i \in 1..MaxPending : LoadStateRejected(i)
    \/ \E i \in 1..MaxPending : SetItemResolved(i)
    \/ \E i \in 1..MaxPending : SetItemRejected(i)
    \/ \E text \in Inputs : ChangeText(text)
    \/ handleAddWater
    \/ NextDay
    \/ CloseApp

Spec == Init /\ [][Next]_vars

\* the same program on a store that never rejects a call
NextWorkingStore ==
    \/ Mount
    \/ \E i \in 1..MaxPending : LoadStateResolved(i)
    \/ \E i \in 1..MaxPending : SetItemResolved(i)
    \/ \E text \in Inputs : ChangeText(text)
    \/ handleAddWater
    \/ NextDay
    \/ CloseApp

WorkingStoreSpec == Init /\ [][NextWorkingStore]_vars

\* the program on a store that holds no state the app wrote when it is first
\* started
FaultyStoreSpec == InitFaultyStore /\ [][Next]_vars

----------------------------------------------------------------------------
(* Shapes of steps and states the properties speak about *)

\* the step in which loadState finishes and its result becomes the state
LoadStep == phase = "loading" /\ phase' = "ready"

\* a LoadStep whose getItem resolved with a stored item that parsed
LoadStoredStep == LoadStep /\ loadLog'.outcome = "stored"

\* a step of handleAddWater
AddWaterStep == lastEvent' \in {"intake", "noIntake"}

\* this session's load read a stored state and the state is still what
\* the load made of it
LoadedStored == phase = "ready" /\ loadLog.outcome = "stored"

----------------------------------------------------------------------------
(* C1: in every reachable state remainingMl lies in 0..DAILY_GOAL_ML *)
C1_RemainingInRange == 0 <= remainingMl /\ remainingMl <= DAILY_GOAL_ML

\* an intake larger than what remained, after a same-day load of 100 ml
C1_Witness ==
    /\ LoadedStored
    /\ loadLog.parsed.remainingMl = 100
    /\ loadLog.parsed.lastDate = lastDate
    /\ lastEvent = "intake"
    /\ remainingMl = 0

(* C2: after a restart on the same calendar date with a store that rejects  *)
(* nothing, the state the startup load makes active is the state that was  *)
(* active when the previous session ended (here for a previous session     *)
(* whose state was a state of that same date, so that no rollover is due)  *)
C2_StateSurvivesRestart ==
    [][(/\ LoadStep
        /\ prevSession # NoSession
        /\ prevSession.day = today
        /\ prevSession.state.lastDate = Today
        /\ lastDate = Today)
       => Current' = prevSession.state]_vars

(* C3: a load that finds a stored state of another date makes the state    *)
(* {DAILY_GOAL_ML, completedToday ? streak + 1 : 0, today, false},         *)
(* whatever the distance between the two dates                             *)
C3_RolloverResult ==
    [][(LoadStoredStep /\ store.value.lastDate # Today)
       => /\ remainingMl' = DAILY_GOAL_ML
          /\ streak' = IF store.value.completedToday
                       THEN store.value.streak + 1 ELSE 0
          /\ lastDate' = Today
          /\ completedToday' = FALSE]_vars

\* a completed day was rolled over two days later: the streak grew by one
C3_Witness ==
    /\ LoadedStored
    /\ loadLog.parsed.completedToday
    /\ loadLog.day = DayOfKey(loadLog.parsed.lastDate) + 2
    /\ streak = loadLog.parsed.streak + 1
    /\ lastDate = getDateKey(DateOf(loadLog.day))

(* C4: a load that finds a stored state of today's date makes exactly that *)
(* state the active one, in all four fields                                *)
C4_SameDayNoOp ==
    [][(LoadStoredStep /\ store.value.lastDate = Today)
       => /\ remainingMl' = store.value.remainingMl
          /\ streak' = store.value.streak
          /\ lastDate' = store.value.lastDate
          /\ completedToday' = store.value.completedToday]_vars

\* a stored state with a streak and some intake was loaded on its own date
C4_Witness ==
    /\ LoadedStored
    /\ loadLog.parsed.lastDate = getDateKey(DateOf(loadLog.day))
    /\ loadLog.parsed.streak > 0
    /\ loadLog.parsed.remainingMl < DAILY_GOAL_ML
    /\ lastEvent = "other"
    /\ Current = loadLog.parsed

\* the states rollover is applied to: the active state and the stored one
RolloverInputs == {Current} \cup (IF store.kind = "json" THEN {store.value} ELSE {})

(* C5: hydrateStateForToday applied twice with one date gives what one     *)
(* application gives, for the active and the stored state and every day    *)
C5_RolloverIdempotent ==
    \A s \in RolloverInputs : \A d \in 0..MaxDay :
        hydrateStateForToday(hydrateStateForToday(s, d), d)
            = hydrateStateForToday(s, d)

\* a second startup on the date of a rollover loaded the rolled state as is
C5_Witness ==
    /\ LoadedStored
    /\ loadLog.parsed = [remainingMl |-> DAILY_GOAL_ML, streak |-> 3,
                         lastDate |-> getDateKey(DateOf(loadLog.day)),
                         completedToday |-> FALSE]
    /\ Current = loadLog.parsed
    /\ hydrateStateForToday(Current, today) = Current

(* C6: handleAddWater with a text that parses to NaN or to a value <= 0    *)
(* changes none of the four fields, issues no write and leaves the app     *)
(* running                                                                  *)
C6_InvalidIntakeNoOp ==
    [][(AddWaterStep /\ (NumberParseInt(inputValue).nan
                         \/ NumberParseInt(inputValue).n <= 0))
       => UNCHANGED <<remainingMl, streak, lastDate, completedToday,
                      pending, store, phase>>]_vars

\* the button was pressed on a text that is no positive amount, mid-day
C6_Witness ==
    /\ lastEvent = "noIntake"
    /\ inputValue \in {<<"-", "5">>, <<"a", "b", "c">>}
    /\ remainingMl = 1000
    /\ phase = "ready"

(* C7: handleAddWater with a positive amount sets remainingMl to           *)
(* clamp(remainingMl - amount, 0, DAILY_GOAL_ML); an amount of at least    *)
(* remainingMl gives 0 and completedToday                                  *)
C7_IntakeResult ==
    [][(AddWaterStep /\ ~NumberParseInt(inputValue).nan
                     /\ NumberParseInt(inputValue).n > 0)
       => LET amount == NumberParseInt(inputValue).n
              diff   == remainingMl - amount
          IN  /\ remainingMl' = IF diff < 0 THEN 0
                                ELSE IF diff > DAILY_GOAL_ML THEN DAILY_GOAL_ML
                                ELSE diff
              /\ amount >= remainingMl => remainingMl' = 0 /\ completedToday']_vars

\* 1000 ml were entered when 100 ml remained
C7_Witness ==
    /\ LoadedStored
    /\ loadLog.parsed.remainingMl = 100
    /\ loadLog.parsed.lastDate = lastDate
    /\ remainingMl = 0
    /\ completedToday
    /\ inputValue = <<>>

(* C8: no step of handleAddWater increases remainingMl, whatever the text; *)
(* remainingMl rises only in the steps of a startup                        *)
C8_IntakeMonotonic ==
    [][/\ AddWaterStep => remainingMl' <= remainingMl
       /\ remainingMl' > remainingMl => phase' # phase]_vars

\* an intake lowered remainingMl from what the load had set
C8_Witness ==
    /\ LoadedStored
    /\ lastEvent = "intake"
    /\ inputValue = <<>>
    /\ remainingMl < loadLog.parsed.remainingMl
    /\ lastDate = loadLog.parsed.lastDate

(* C9: no step of handleAddWater takes completedToday from true to false,  *)
(* and no other step of a running session does; a load that rolls over to  *)
(* another date sets it to false                                           *)
C9_CompletionSticky ==
    [][/\ (AddWaterStep /\ completedToday) => completedToday'
       /\ (completedToday /\ ~completedToday') => phase' # phase
       /\ (LoadStoredStep /\ store.value.lastDate # Today)
            => ~completedToday']_vars

\* an intake was entered after the goal was reached
C9_Witness ==
    /\ phase = "ready"
    /\ lastEvent = "intake"
    /\ inputValue = <<>>
    /\ completedToday
    /\ pending = <<>>
    /\ store = JSONstringify(Current)

(* C10: no step of handleAddWater changes streak or lastDate, also when    *)
(* the date has changed since lastDate; streak and lastDate change only    *)
(* in the steps of a startup                                               *)
C10_IntakeFrame ==
    [][/\ AddWaterStep => streak' = streak /\ lastDate' = lastDate
       /\ (streak' # streak \/ lastDate' # lastDate) => phase' # phase]_vars

\* an intake was entered on the day after lastDate and nothing rolled over
C10_Witness ==
    /\ phase = "ready"
    /\ lastEvent = "intake"
    /\ inputValue = <<>>
    /\ lastDate # Today
    /\ streak > 0
    /\ remainingMl < DAILY_GOAL_ML

\* the state a valid HydrationState is: fields of the right kind and range
DateKeys == {getDateKey(DateOf(n)) : n \in (0 - 1)..MaxDay}

(* C11: a startup load that finds no item, an item that does not parse, or *)
(* whose getItem is rejected, completes and makes the initializer's state  *)
(* {DAILY_GOAL_ML, 0, today, false} the active one                         *)
C11_LoadFallback ==
    [][(LoadStep /\ (store.kind # "json" \/ loadLog'.outcome = "error"))
       => /\ phase' = "ready"
          /\ remainingMl' = DAILY_GOAL_ML
          /\ streak' = 0
          /\ lastDate' = Today
          /\ completedToday' = FALSE]_vars

\* a load on day 1 of a session mounted on day 0 ended in the catch branch
\* while the store held a text that is not JSON
C11_Witness ==
    /\ phase = "ready"
    /\ loadLog.outcome = "error"
    /\ loadLog.day = 1
    /\ store = CorruptItem
    /\ Current = buildInitialState(1)

(* C12: whatever the store holds or answers, the in-memory state is valid  *)
(* in every reachable state: remainingMl in 0..DAILY_GOAL_ML, streak >= 0, *)
(* lastDate a date key, completedToday a boolean                           *)
C12_StateAlwaysValid ==
    /\ remainingMl \in 0..DAILY_GOAL_ML
    /\ streak \in Nat
    /\ lastDate \in DateKeys
    /\ completedToday \in BOOLEAN

(* C13: a rejected setItem changes nothing of the in-memory state, of the  *)
(* store or of the app's phase and issues no new call; an intake works on  *)
(* the in-memory state whatever the store holds                            *)
C13_WriteFailureSwallowed ==
    [][/\ lastEvent' = "setItemRejected"
            => /\ UNCHANGED <<remainingMl, streak, lastDate, completedToday,
                              inputValue, store, phase>>
               /\ Len(pending') = Len(pending) - 1
       /\ (AddWaterStep /\ lastEvent = "setItemRejected"
                        /\ ~NumberParseInt(inputValue).nan
                        /\ NumberParseInt(inputValue).n > 0)
            => remainingMl' = Max2(0, remainingMl - NumberParseInt(inputValue).n)]_vars

\* the write of an intake was rejected: nothing is in flight, the store still
\* holds the state before the intake, the in-memory state holds the intake
C13_Witness ==
    /\ phase = "ready"
    /\ lastEvent = "setItemRejected"
    /\ pending = <<>>
    /\ store.kind = "json"
    /\ store.value.lastDate = lastDate
    /\ remainingMl < store.value.remainingMl

(* C14: every load or intake step that changes the state issues, as its    *)
(* last call, a setItem of the full new state; and whenever the app is     *)
(* loaded and every setItem it issued has been executed, the stored item   *)
(* is the in-memory state                                                  *)
C14_StoreCatchesUp ==
    [][/\ ((LoadStep \/ AddWaterStep) /\ Current' # Current)
            => /\ pending' # <<>>
               /\ pending'[Len(pending')] = SetItem(Current')
       /\ (phase' = "ready" /\ pending' = <<>>)
            => store' = JSONstringify(Current')]_vars

(* C15: no intake is handled between the start of the startup load and    *)
(* the moment its result becomes the active state                          *)
C15_NoIntakeWhileLoading == ~(phase = "loading" /\ lastEvent = "intake")

\* what rollover makes of the item the load reads on the day it finishes
RolledOver(item, key) ==
    IF item.kind = "json" /\ item.value.lastDate # key
    THEN [remainingMl    |-> DAILY_GOAL_ML,
          streak         |-> IF item.value.completedToday
                             THEN item.value.streak + 1 ELSE 0,
          lastDate       |-> key,
          completedToday |-> FALSE]
    ELSE IF item.kind = "json"
    THEN item.value
    ELSE [remainingMl |-> DAILY_GOAL_ML, streak |-> 0, lastDate |-> key,
          completedToday |-> FALSE]

(* C16: the step that completes a startup load whose read succeeded makes  *)
(* rollover(stored or initializer state, today) the active state and, in   *)
(* that same step, issues a setItem of exactly that state                  *)
C16_LoadWritesBack ==
    [][(LoadStep /\ loadLog'.outcome # "error")
       => /\ Current' = RolledOver(store, Today)
          /\ Len(pending') >= Len(pending)
          /\ pending'[Len(pending)] = SetItem(Current')]_vars

\* a rollover was loaded, its write is in flight and no intake has followed
C16_Witness ==
    /\ LoadedStored
    /\ loadLog.parsed.lastDate # lastDate
    /\ streak = loadLog.parsed.streak + 1
    /\ remainingMl = DAILY_GOAL_ML
    /\ lastEvent = "other"
    /\ inputValue = <<>>
    /\ pending # <<>>
    /\ pending[Len(pending)] = SetItem(Current)

\* the number of consecutive days immediately before day d on which the goal
\* was reached; a day counts as reached when an intake took remainingMl to 0
\* while lastDate was that day
Consecutive(d) ==
    Cardinality({k \in 1..(MaxDay + 4) : \A j \in 1..k : (d - j) \in reachedDays})

\* the number of days before day d on which the goal was reached
ReachedBefore(d) == Cardinality({r \in reachedDays : r < d})

(* C17, as stated: once a load has read a state an earlier run wrote,      *)
(* streak is the number of consecutive days immediately before lastDate on *)
(* which the goal was reached, days without a session included             *)
C17_StreakIsConsecutive ==
    (LoadedStored /\ loadLog.parsed \in StoredStates)
        => streak = Consecutive(DayOfKey(lastDate))

(* C17, amended: in every reachable state streak is at most the number of  *)
(* days before lastDate on which the goal was reached; a rollover over a   *)
(* gap of two or more days adds 1 to the stored streak when the stored day *)
(* was completed, and the days of the gap neither count nor break it       *)
C17_StreakBounded ==
    /\ [](streak <= ReachedBefore(DayOfKey(lastDate)))
    /\ [][(LoadStoredStep /\ DayOfKey(store.value.lastDate) < today - 1)
            => streak' = IF store.value.completedToday
                         THEN store.value.streak + 1 ELSE 0]_vars

\* a load rolled a completed day over a gap: the day before lastDate had no
\* session and the streak went up all the same
C17_Witness ==
    /\ LoadedStored
    /\ DayOfKey(loadLog.parsed.lastDate) < loadLog.day - 1
    /\ loadLog.parsed.completedToday
    /\ streak = loadLog.parsed.streak + 1
    /\ lastDate = getDateKey(DateOf(loadLog.day))
    /\ Consecutive(DayOfKey(lastDate)) = 0
    /\ lastEvent = "other"

(* C18: in every state after a startup load, completedToday is true        *)
(* exactly when remainingMl is 0                                           *)
C18_CompletedIffEmpty ==
    phase = "ready" => (completedToday <=> remainingMl = 0)

\* an intake after the load took remainingMl to 0 and set completedToday
C18_Witness ==
    /\ LoadedStored
    /\ lastEvent = "intake"
    /\ completedToday
    /\ remainingMl = 0
    /\ loadLog.parsed.remainingMl > 0
    /\ loadLog.parsed.lastDate = lastDate

(* C19: lastDate is never later than the calendar date; once the load has  *)
(* completed it is the date of the day the load ran on; every load sets it *)
(* to that date, and it changes in no step but those of a startup          *)
C19_LastDateIsCheckDate ==
    /\ [](DayOfKey(lastDate) <= today)
    /\ [](phase = "ready" => lastDate = getDateKey(DateOf(loadLog.day)))
    /\ [][/\ LoadStep => lastDate' = Today
          /\ lastDate' # lastDate => phase' # phase]_vars

\* a load rolled over on day 0, midnight passed, and lastDate is still day 0
C19_Witness ==
    /\ LoadedStored
    /\ loadLog.parsed.lastDate # lastDate
    /\ loadLog.day = 0
    /\ today = 1
    /\ lastDate = getDateKey(DateOf(0))
    /\ lastEvent = "other"

(* C20: a day change alone changes nothing of the state and issues no      *)
(* call; while a session stays loaded, streak and lastDate keep their      *)
(* values and completedToday is not reset; an intake after the day change  *)
(* is subtracted from the previous day's remainingMl; and the next load    *)
(* that finds a stored lastDate other than today sets remainingMl to       *)
(* DAILY_GOAL_ML whatever the stored remainingMl is                        *)
C20_RolloverOnlyAtLoad ==
    [][/\ today' # today
            => UNCHANGED <<remainingMl, streak, lastDate, completedToday,
                           pending, store, phase>>
       /\ (phase = "ready" /\ phase' = "ready")
            => /\ streak' = streak
               /\ lastDate' = lastDate
               /\ completedToday => completedToday'
       /\ (AddWaterStep /\ lastDate # Today)
            => remainingMl' = clamp(remainingMl - Max2(0, parseIntSafe(inputValue)),
                                    0, DAILY_GOAL_ML)
       /\ (LoadStoredStep /\ store.value.lastDate # Today)
            => remainingMl' = DAILY_GOAL_ML]_vars

\* the goal of day 0 was reached by an intake entered on day 1 in a session
\* loaded on day 0
C20_Witness ==
    /\ phase = "ready"
    /\ loadLog.day = 0
    /\ today = 1
    /\ lastDate = getDateKey(DateOf(0))
    /\ lastEvent = "intake"
    /\ completedToday
    /\ remainingMl = 0
    /\ pending # <<>>
    /\ pending[Len(pending)] = SetItem(Current)
====
